---- MODULE Spec2Model ----
(***************************************************************************)
(* A model of the ashell notification core: the D-Bus protocol daemon      *)
(* (services/notifications/dbus.rs), the notification service and its      *)
(* connection lifecycle (services/notifications/mod.rs), the notifications *)
(* module that owns the service handle (modules/notifications.rs), the     *)
(* popup lifecycle engine (popup.rs) and the popup messages of the host    *)
(* (app.rs).                                                               *)
(*                                                                         *)
(* The specifications share the actions:                                   *)
(*   Spec          the whole system: daemon, timers, channels, service     *)
(*                 and user messages;                                      *)
(*   CounterSpec   the daemon's id counter under every replaces_id, the    *)
(*                 other arguments fixed (the id does not depend on        *)
(*                 them);                                                  *)
(*   BlockingSpec  CounterSpec with a Notify call suspended on a full      *)
(*                 channel resumed as soon as there is room;               *)
(*   DaemonSpec    the daemon's timers under every urgency, transient      *)
(*                 flag and expire_timeout, with replaces_id = 0 (the      *)
(*                 timer does not depend on the id);                       *)
(*   ApiSpec       Notify and CloseNotification calls and the events they  *)
(*                 send to the service;                                    *)
(*   LifecycleSpec the connection lifecycle: registration, relay, the end  *)
(*                 of the daemon and of the subscription;                  *)
(*   ServiceSpec   the service and the module under every event the        *)
(*                 subscription can deliver and every user message;        *)
(*   PopupSpec     the popup engine under enqueue, tick, dismiss, a        *)
(*                 changing display duration and the passing of time;      *)
(*   EvictionSpec  enqueue against a changing max_visible, the clock       *)
(*                 standing still;                                         *)
(*   DrainSpec     the popup engine polled by the tick subscription while  *)
(*                 time passes without end, with the entry progress and    *)
(*                 the surface height as exact fractions;                  *)
(*   EmissionSpec  the user messages of the menu and the emission tasks    *)
(*                 they hand to the runtime, one emit call per step;       *)
(*   CloseRaceSpec the expiry timer, CloseNotification and the user's      *)
(*                 dismissal of one notification against each other;       *)
(*   ReuseSpec     the id counter wrapping around while the service keeps  *)
(*                 the notifications of the earlier calls.                 *)
(*                                                                         *)
(* Spec, ServiceSpec and the popup specifications take the user messages   *)
(* as Notifications::update and PopupState handle them; the tasks the      *)
(* messages return are run in EmissionSpec and CloseRaceSpec.              *)
(***************************************************************************)
EXTENDS Integers, Sequences, FiniteSets, TLC

\* ------------------------------------------------------------------ bounds

\* u32 arithmetic is modelled modulo IdModulus (2^32 in the program).
IdModulus == 3
\* Notify calls explored by Spec.
MaxCalls == 2
\* Notify calls explored by CounterSpec.
MaxCounterCalls == 4
\* Notify calls explored by DaemonSpec.
MaxDaemonCalls == 2
\* Notify calls explored by ApiSpec.
MaxApiCalls == 2
\* Notify calls explored by LifecycleSpec.
MaxLifeCalls == 2
\* Notify events explored by ServiceSpec.
MaxEvents == 2
\* CloseNotification calls explored.
MaxCloses == 1
\* Capacity of the tokio mpsc channel and of the iced channel (both 100 in
\* the program).
ChannelCapacity == 1
\* max_notifications ranges over 0..MaxMaxNotifications.
MaxMaxNotifications == 2

\* The clock is explored up to MaxTime.
MaxTime == 3
\* Notify events explored by PopupSpec.
MaxPopupEvents == 2
\* popup_max_visible ranges over 0..MaxMaxVisible.
MaxMaxVisible == 1
\* Largest animation_duration explored by DrainSpec; it stays below MaxTime.
MaxAnimation == 2

\* The emit calls the user's messages may start.
MaxEmissions == 3
\* the height of one popup entry (80.0 in target_surface_height_at)
EntryHeight == 80
\* the padding around the entries (16.0 in target_surface_height_at)
Padding == 16

\* ------------------------------------------------------------------ types

Urgency == {"Low", "Normal", "Critical"}

CloseReason == {"Expired", "Dismissed", "ByApi"}

\* expire_timeout: i32; one negative, zero and one positive value.
ExpireTimeouts == {-1, 0, 1}

\* default_timeout: i32 taken from the configuration.
DefaultTimeouts == {-1, 0, 1}

\* Values a caller can pass as replaces_id (any u32).
ReplacesIds == 0 .. (IdModulus - 1)

\* Ids a close, dismiss or action message can name.
Ids == 1 .. (IdModulus - 1)

ActionKeys == {"default"}

\* popup_animation_ms: u64
AnimationDurations == {0, 1}

\* popup_duration_ms: u64
DisplayDurations == {0, 1}

VARIABLES
    next_id,            \* NotificationDaemon.next_id
    default_timeout,    \* NotificationDaemon.default_timeout
    timers,             \* the expiry tasks spawned by notify, sleeping or done
    rx,                 \* tokio mpsc channel daemon -> start_listening
    output,             \* iced channel start_listening -> Notifications::update
    state,              \* State of start_listening: Init, Active, Error
    service,            \* Notifications.service is Some
    notifications,      \* NotificationService.notifications
    max_notifications,  \* NotificationService.max_notifications
    unread_count,       \* Notifications.unread_count
    calls,              \* number of Notify calls made (the clock of timestamps)
    issued,             \* history: ids handed out by the counter, with their epoch
    wraps,              \* history: number of times the counter wrapped
    daemon,             \* the NotificationDaemon (and its Sender) is registered and alive
    receiver,           \* the subscription stream holding the Receiver is alive
    sending,            \* the Notify call suspended in sender.send, or NoCall
    reply,              \* the id returned by the last Notify call, 0 before the first
    signals,            \* number of NotificationClosed signals emitted, per id and reason
    invoked,            \* number of ActionInvoked signals emitted, per id and action key
    tasks,              \* the emission tasks handed to the runtime and not yet finished
    entries,            \* PopupState.entries
    now,                \* the monotonic clock read by Instant::now()
    popup_enabled,      \* NotificationsModuleConfig.popup_enabled
    max_visible,        \* PopupState.max_visible
    animation_duration, \* PopupState.animation_duration
    popup_duration      \* NotificationsModuleConfig.popup_duration_ms

vars == <<next_id, default_timeout, timers, rx, output, state, service,
          notifications, max_notifications, unread_count, calls,
          issued, wraps, daemon, receiver, sending, reply, signals,
          invoked, tasks, entries, now, popup_enabled, max_visible, animation_duration,
          popup_duration>>

daemonVars == <<next_id, timers, calls, issued, wraps, sending, reply>>
moduleVars == <<service, notifications, unread_count>>
configVars == <<default_timeout, max_notifications>>
lifeVars   == <<daemon, receiver>>
popupVars  == <<entries, now>>
emitVars   == <<invoked, tasks>>
popupConfig == <<popup_enabled, max_visible, animation_duration, popup_duration>>

\* ------------------------------------------------------- daemon (dbus.rs)

\* NextId with a saturating add in place of the wrapping one.
NextId_Saturating(n) == IF n + 1 >= IdModulus THEN n ELSE n + 1

\* NextId that leaves the counter where it is.
NextId_Stuck(n) == n

\* NextId without the .max(1): the counter passes through 0.
NextId_NoSkip(n) == (n + 1) % IdModulus

\* self.next_id.wrapping_add(1).max(1)
NextId(n) ==
    LET w == (n + 1) % IdModulus
    IN  IF w < 1 THEN 1 ELSE w

\* let id = if replaces_id > 0 { replaces_id } else { self.next_id }
AssignId(replaces_id, counter) ==
    IF replaces_id > 0 THEN replaces_id ELSE counter

\* TimeoutMs without the server default for negative values.
TimeoutMs_NoDefault(expire_timeout, dflt) == expire_timeout

\* match expire_timeout { t if t < 0 => default_timeout, 0 => 0, t => t }
TimeoutMs(expire_timeout, dflt) ==
    IF expire_timeout < 0 THEN dflt
    ELSE IF expire_timeout = 0 THEN 0
    ELSE expire_timeout

\* SpawnsTimer without the urgency test.
SpawnsTimer_AnyUrgency(urgency, expire_timeout, dflt) ==
    (IF expire_timeout < 0 THEN dflt ELSE expire_timeout) > 0

\* if urgency != Critical { ... if timeout_ms > 0 { tokio::spawn(...) } }
SpawnsTimer(urgency, expire_timeout, dflt) ==
    /\ urgency # "Critical"
    /\ TimeoutMs(expire_timeout, dflt) > 0

NotifyEvent(n) == [type |-> "Notify", n |-> n]

ClosedEvent(id, reason) == [type |-> "Closed", id |-> id, reason |-> reason]

\* The Notification built by notify; the timestamp is the number of the call.
NewNotification(id, urgency, transient, expire_timeout, timestamp) ==
    [id |-> id, urgency |-> urgency, transient |-> transient,
     expire_timeout |-> expire_timeout, timestamp |-> timestamp]

\* The NotificationClosed signals the bus can carry.
ClosedSignals == [id : Ids, reason : CloseReason]

\* notification_closed(emitter, id, reason): one more signal on the bus
Emitted(sig, id, reason) ==
    [sig EXCEPT ![[id |-> id, reason |-> reason]] = @ + 1]

\* The ActionInvoked signals the bus can carry.
InvokedSignals == [id : Ids, key : ActionKeys]

\* emit_action_invoked_signal(id, action_key): one more signal on the bus
ActionEmitted(inv, id, key) ==
    [inv EXCEPT ![[id |-> id, key |-> key]] = @ + 1]

\* sender.send(event).await completes at once when the channel has room, or
\* with an error (ignored) when the receiver is gone; otherwise it waits.
SendReady == ~receiver \/ Len(rx) < ChannelCapacity

\* Sent that queues the event although the receiver is gone.
Sent_Always(event) == Append(rx, event)

\* The channel after a completed send of event.
Sent(event) == IF receiver THEN Append(rx, event) ELSE rx

\* The timers after notify's auto-expiry block has run for n.
Spawned(n) ==
    IF SpawnsTimer(n.urgency, n.expire_timeout, default_timeout)
    THEN timers \cup {[id |-> n.id, timestamp |-> n.timestamp, pc |-> "sleep"]}
    ELSE timers

\* notify up to its send: the id, the counter and the call's history.
Assigned(replaces_id) ==
    /\ next_id' = IF replaces_id > 0 THEN next_id ELSE NextId(next_id)
    /\ calls' = calls + 1
    /\ issued' = IF replaces_id > 0 THEN issued
                 ELSE Append(issued, [id |-> AssignId(replaces_id, next_id),
                                      epoch |-> wraps])
    /\ wraps' = IF replaces_id = 0 /\ next_id + 1 >= IdModulus
                THEN wraps + 1 ELSE wraps

\* notify from its send on: the event, the timer and the returned id.
Completed(n) ==
    /\ rx' = Sent(NotifyEvent(n))
    /\ timers' = Spawned(n)
    /\ reply' = n.id

\* NotificationDaemon::notify when the send completes at once.
Notify(replaces_id, urgency, transient, expire_timeout) ==
    /\ daemon
    /\ sending = <<>>
    /\ SendReady
    /\ Assigned(replaces_id)
    /\ Completed(NewNotification(AssignId(replaces_id, next_id), urgency,
                                 transient, expire_timeout, calls + 1))
    /\ UNCHANGED <<sending, signals, emitVars, output, state, moduleVars, configVars, popupVars, popupConfig, lifeVars>>

NotifyBlocked_TimerFirst(replaces_id, urgency, transient, expire_timeout) ==
    /\ daemon
    /\ sending = <<>>
    /\ ~SendReady
    /\ Assigned(replaces_id)
    /\ sending' = <<NewNotification(AssignId(replaces_id, next_id), urgency,
                                    transient, expire_timeout, calls + 1)>>
    /\ timers' = Spawned(NewNotification(AssignId(replaces_id, next_id), urgency,
                                         transient, expire_timeout, calls + 1))
    /\ UNCHANGED <<rx, reply, signals, emitVars, output, state, moduleVars,
                   configVars, popupVars, popupConfig, lifeVars>>

\* NotificationDaemon::notify when the channel is full: the call is suspended
\* in sender.send(..).await, holding the interface.
NotifyBlocked(replaces_id, urgency, transient, expire_timeout) ==
    /\ daemon
    /\ sending = <<>>
    /\ ~SendReady
    /\ Assigned(replaces_id)
    /\ sending' = <<NewNotification(AssignId(replaces_id, next_id), urgency,
                                    transient, expire_timeout, calls + 1)>>
    /\ UNCHANGED <<rx, timers, reply, signals, emitVars, output, state, moduleVars,
                   configVars, popupVars, popupConfig, lifeVars>>

\* The suspended notify resumes: its send completes and the call returns.
NotifyResume ==
    /\ sending # <<>>
    /\ SendReady
    /\ Completed(sending[1])
    /\ sending' = <<>>
    /\ UNCHANGED <<next_id, calls, issued, wraps, signals, emitVars, output, state,
                   moduleVars, configVars, popupVars, popupConfig, lifeVars>>

\* Fired that leaves the task asleep.
Fired_Rearmed(t) == t

\* The timer task once its send of Closed(id, Expired) has completed.
Fired(t) == [t EXCEPT !.pc = "emit"]

\* The timer task once it has emitted its signal: the async block has ended.
Finished(t) == [t EXCEPT !.pc = "done"]

\* The task spawned by notify: the sleep is over and Closed(id, Expired) is
\* sent.
TimerFire(t) ==
    /\ t \in timers
    /\ t.pc = "sleep"
    /\ SendReady
    /\ rx' = Sent(ClosedEvent(t.id, "Expired"))
    /\ timers' = (timers \ {t}) \cup {Fired(t)}
    /\ UNCHANGED <<next_id, calls, issued, wraps, sending, reply, signals, emitVars, output,
                   state, moduleVars, configVars, popupVars, popupConfig, lifeVars>>

\* The task spawned by notify: NotificationClosed(id, 1) is emitted and the
\* task is finished.
TimerEmit(t) ==
    /\ t \in timers
    /\ t.pc = "emit"
    /\ signals' = Emitted(signals, t.id, "Expired")
    /\ timers' = (timers \ {t}) \cup {Finished(t)}
    /\ UNCHANGED <<next_id, calls, issued, wraps, sending, reply, rx, output,
                   state, emitVars, moduleVars, configVars, popupVars, popupConfig, lifeVars>>

\* NotificationDaemon::close_notification
CloseNotification(id) ==
    /\ daemon
    /\ sending = <<>>
    /\ SendReady
    /\ rx' = Sent(ClosedEvent(id, "ByApi"))
    /\ signals' = Emitted(signals, id, "ByApi")
    /\ UNCHANGED <<daemonVars, output, state, emitVars, moduleVars, configVars, popupVars, popupConfig, lifeVars>>

\* ------------------------------------------- service lifecycle (mod.rs)

InitMessage == [kind |-> "Init"]

UpdateMessage(event) == [kind |-> "Update", event |-> event]

\* start_listening, State::Init, every step succeeds
InitOk ==
    /\ receiver
    /\ state = "Init"
    /\ Len(output) < ChannelCapacity
    /\ output' = Append(output, InitMessage)
    /\ state' = "Active"
    /\ daemon' = TRUE
    /\ UNCHANGED <<daemonVars, rx, signals, emitVars, moduleVars, configVars, popupVars, popupConfig, receiver>>

\* start_listening, State::Init, the bus, the registration or the name fails
InitFail ==
    /\ receiver
    /\ state = "Init"
    /\ state' = "Error"
    /\ UNCHANGED <<daemonVars, rx, output, signals, emitVars, moduleVars, configVars, popupVars, popupConfig, lifeVars>>

\* output.send(ServiceEvent::Update(event)).await
Deliver(event) ==
    /\ state = "Active"
    /\ Len(output) < ChannelCapacity
    /\ output' = Append(output, UpdateMessage(event))

\* start_listening, State::Active: one turn of the relay loop
Relay ==
    /\ receiver
    /\ rx # <<>>
    /\ Deliver(Head(rx))
    /\ rx' = Tail(rx)
    /\ UNCHANGED <<daemonVars, state, signals, emitVars, moduleVars, configVars, popupVars, popupConfig, lifeVars>>

\* AfterClose that starts over.
AfterClose_Restart == "Init"

\* The state start_listening returns when rx.recv() yields None.
AfterClose == "Error"

\* start_listening, State::Active: every Sender is gone and the channel is
\* drained, so rx.recv() yields None
RelayClosed ==
    /\ receiver
    /\ state = "Active"
    /\ rx = <<>>
    /\ ~daemon
    /\ sending = <<>>
    /\ \A t \in timers : t.pc = "done"
    /\ state' = AfterClose
    /\ UNCHANGED <<daemonVars, rx, output, signals, emitVars, moduleVars, configVars, popupVars, popupConfig, lifeVars>>

\* The connection holding the registered daemon is torn down: its Sender is
\* dropped and no further method call reaches it.
DaemonDropped ==
    /\ daemon
    /\ sending = <<>>
    /\ daemon' = FALSE
    /\ UNCHANGED <<daemonVars, rx, output, state, signals, emitVars, moduleVars, configVars, popupVars, popupConfig,
                   receiver>>

\* The subscription is no longer requested: its stream is dropped, and with it
\* the Receiver and the events still in the channel.
SubscriptionDropped ==
    /\ receiver
    /\ receiver' = FALSE
    /\ rx' = <<>>
    /\ UNCHANGED <<daemonVars, output, state, signals, emitVars, moduleVars, configVars, popupVars, popupConfig, daemon>>

\* The relay loop delivering a Notify event, whatever the daemon sent, once
\* the message before it has been handled.
ReceiveNotify(id, urgency, transient, expire_timeout) ==
    /\ output = <<>>
    /\ Deliver(NotifyEvent(
           NewNotification(id, urgency, transient, expire_timeout, calls + 1)))
    /\ calls' = calls + 1
    /\ UNCHANGED <<next_id, timers, issued, wraps, sending, reply, rx, state,
                   signals, emitVars, moduleVars, configVars, popupVars, popupConfig, lifeVars>>

\* The relay loop delivering a Closed event, whatever the daemon sent, once
\* the message before it has been handled.
ReceiveClosed(id, reason) ==
    /\ output = <<>>
    /\ Deliver(ClosedEvent(id, reason))
    /\ UNCHANGED <<daemonVars, rx, state, signals, emitVars, moduleVars, configVars, popupVars, popupConfig, lifeVars>>

\* ------------------------------------ NotificationService::update (mod.rs)

\* Position that never finds the id.
Position_None(list, id) == 0

\* self.notifications.iter().position(|n| n.id == id), 0 for None
Position(list, id) ==
    IF \E i \in 1..Len(list) : list[i].id = id
    THEN CHOOSE i \in 1..Len(list) :
            /\ list[i].id = id
            /\ \A j \in 1..(i - 1) : list[j].id # id
    ELSE 0

\* Vec::remove(pos)
RemoveAt(list, pos) ==
    SubSeq(list, 1, pos - 1) \o SubSeq(list, pos + 1, Len(list))

\* RemoveFirst that removes nothing.
RemoveFirst_Keep(list, id) == list

\* if let Some(pos) = position { remove(pos) }
RemoveFirst(list, id) ==
    IF Position(list, id) = 0 THEN list ELSE RemoveAt(list, Position(list, id))

\* NotStored without the urgency test.
NotStored_TransientOnly(n) == n.transient

\* notification.transient && notification.urgency != Urgency::Critical
NotStored(n) == n.transient /\ n.urgency # "Critical"

\* InsertFront that pushes at the back.
InsertFront_Back(list, n) == Append(list, n)

\* self.notifications.insert(0, notification)
InsertFront(list, n) == <<n>> \o list

\* Truncate that never cuts.
Truncate_Never(list, max) == list

\* Truncate that drops from the head.
Truncate_Head(list, max) ==
    IF Len(list) > max THEN SubSeq(list, Len(list) - max + 1, Len(list)) ELSE list

\* if len > max { truncate(max) }
Truncate(list, max) ==
    IF Len(list) > max THEN SubSeq(list, 1, max) ELSE list

\* Retain with the predicate inverted.
Retain_Inverted(list, id) == SelectSeq(list, LAMBDA n : n.id = id)

\* Vec::retain(|n| n.id != id)
Retain(list, id) == SelectSeq(list, LAMBDA n : n.id # id)

\* the Notify arm of update
ApplyNotify(list, n, max) ==
    LET removed == RemoveFirst(list, n.id)
    IN  IF NotStored(n) THEN removed
        ELSE Truncate(InsertFront(removed, n), max)

\* ApplyClosed that removes nothing.
ApplyClosed_Noop(list, id) == list

\* the Closed arm of update
ApplyClosed(list, id) == Retain(list, id)

Update_ClosedClears(list, event, max) ==
    IF event.type = "Notify" THEN ApplyNotify(list, event.n, max)
    ELSE <<>>

\* NotificationService::update
Update(list, event, max) ==
    IF event.type = "Notify" THEN ApplyNotify(list, event.n, max)
    ELSE ApplyClosed(list, event.id)

\* ------------------------------------------- popup engine (popup.rs)

PopupPhase == {"SlideIn", "Display", "SlideOut"}

\* PopupEntry as enqueue builds it
NewEntry(n, display_duration, t) ==
    [notification |-> n, phase |-> "SlideIn", phase_started |-> t,
     display_duration |-> display_duration]

\* entries.iter().filter(|e| e.phase != PopupPhase::SlideOut).count()
Visible(es) == Cardinality({i \in 1..Len(es) : es[i].phase # "SlideOut"})

\* a find that takes the last entry not in SlideOut, 0 for None
Oldest_Newest(es) ==
    IF \E i \in 1..Len(es) : es[i].phase # "SlideOut"
    THEN CHOOSE i \in 1..Len(es) :
            /\ es[i].phase # "SlideOut"
            /\ \A j \in (i + 1)..Len(es) : es[j].phase = "SlideOut"
    ELSE 0

\* entries.iter_mut().find(|e| e.phase != PopupPhase::SlideOut), 0 for None
Oldest(es) ==
    IF \E i \in 1..Len(es) : es[i].phase # "SlideOut"
    THEN CHOOSE i \in 1..Len(es) :
            /\ es[i].phase # "SlideOut"
            /\ \A j \in 1..(i - 1) : es[j].phase = "SlideOut"
    ELSE 0

\* the while loop of enqueue: the oldest entries not in SlideOut are forced
\* into SlideOut until at most max of them are left
RECURSIVE Evict(_, _, _)
Evict(es, t, max) ==
    IF Visible(es) > max /\ Oldest(es) # 0
    THEN Evict([es EXCEPT ![Oldest(es)].phase = "SlideOut",
                          ![Oldest(es)].phase_started = t], t, max)
    ELSE es

\* enqueue without the retain that drops the entry being replaced.
Enqueue_KeepOld(es, n, display_duration, t, max) ==
    Evict(Append(es, NewEntry(n, display_duration, t)), t, max)

\* enqueue without the while loop that enforces max_visible.
Enqueue_NoEvict(es, n, display_duration, t, max) ==
    LET kept == SelectSeq(es, LAMBDA e : e.notification.id # n.id)
    IN  Append(kept, NewEntry(n, display_duration, t))

\* PopupState::enqueue
Enqueue(es, n, display_duration, t, max) ==
    LET kept == SelectSeq(es, LAMBDA e : e.notification.id # n.id)
    IN  Evict(Append(kept, NewEntry(n, display_duration, t)), t, max)

\* a clock reading that never leaves the start of the phase
Elapsed_Zero(e, t) == 0

\* now.duration_since(entry.phase_started)
Elapsed(e, t) == IF t >= e.phase_started THEN t - e.phase_started ELSE 0

\* the conditions under which the loop of tick changes the phase of e
Advances(e, t, anim) ==
    \/ e.phase = "SlideIn" /\ Elapsed(e, t) >= anim
    \/ e.phase = "Display" /\ Elapsed(e, t) >= e.display_duration

\* a loop body that goes on to SlideOut when the display time of the entry it
\* has just moved to Display is already over
AdvanceEntry_Cascades(e, t, anim) ==
    IF e.phase = "SlideIn" /\ Elapsed(e, t) >= anim
    THEN [e EXCEPT !.phase = IF e.display_duration = 0 THEN "SlideOut" ELSE "Display",
                   !.phase_started = t]
    ELSE IF e.phase = "Display" /\ Elapsed(e, t) >= e.display_duration
    THEN [e EXCEPT !.phase = "SlideOut", !.phase_started = t]
    ELSE e

\* a loop body that sends an entry whose display time is over back to SlideIn
AdvanceEntry_Rewinds(e, t, anim) ==
    IF e.phase = "SlideIn" /\ Elapsed(e, t) >= anim
    THEN [e EXCEPT !.phase = "Display", !.phase_started = t]
    ELSE IF e.phase = "Display" /\ Elapsed(e, t) >= e.display_duration
    THEN [e EXCEPT !.phase = "SlideIn", !.phase_started = t]
    ELSE e

\* the body of the loop of tick
AdvanceEntry(e, t, anim) ==
    IF e.phase = "SlideIn" /\ Elapsed(e, t) >= anim
    THEN [e EXCEPT !.phase = "Display", !.phase_started = t]
    ELSE IF e.phase = "Display" /\ Elapsed(e, t) >= e.display_duration
    THEN [e EXCEPT !.phase = "SlideOut", !.phase_started = t]
    ELSE e

\* the entries after the loop of tick
Advanced(es, t, anim) == [i \in 1..Len(es) |-> AdvanceEntry(es[i], t, anim)]

\* a retain that drops a SlideOut entry only after more than anim has elapsed
Kept_Late(e, t, anim) ==
    IF e.phase = "SlideOut" THEN Elapsed(e, t) <= anim ELSE TRUE

\* the predicate of the retain of tick
Kept(e, t, anim) ==
    IF e.phase = "SlideOut" THEN Elapsed(e, t) < anim ELSE TRUE

\* PopupState::tick: the entries it leaves
TickEntries(es, t, anim) ==
    SelectSeq(Advanced(es, t, anim), LAMBDA e : Kept(e, t, anim))

\* a tick that reports only what its loop changed, not what its retain dropped
TickChanged_LoopOnly(es, t, anim) ==
    \E i \in 1..Len(es) : Advances(es[i], t, anim)

\* PopupState::tick: the value it returns
TickChanged(es, t, anim) ==
    \/ \E i \in 1..Len(es) : Advances(es[i], t, anim)
    \/ Len(TickEntries(es, t, anim)) # Len(es)

\* entries.iter_mut().find(|e| e.notification.id == id), 0 for None
Find(es, id) ==
    IF \E i \in 1..Len(es) : es[i].notification.id = id
    THEN CHOOSE i \in 1..Len(es) :
            /\ es[i].notification.id = id
            /\ \A j \in 1..(i - 1) : es[j].notification.id # id
    ELSE 0

\* a dismiss that changes the phase and keeps the old phase_started
DismissEntry_KeepsStart(es, id, t) ==
    IF Find(es, id) = 0 THEN es
    ELSE [es EXCEPT ![Find(es, id)].phase = "SlideOut"]

\* PopupState::dismiss
DismissEntry(es, id, t) ==
    IF Find(es, id) = 0 THEN es
    ELSE [es EXCEPT ![Find(es, id)].phase = "SlideOut",
                    ![Find(es, id)].phase_started = t]

\* An is_active that holds whatever the list.
IsActive_Always(es) == TRUE

\* PopupState::is_active
IsActive(es) == es # <<>>

\* Progress and height are f32 in the program; here they are exact fractions
\* with the denominator Scale(anim), so every value below is a numerator.
\* The f32 operations involved round monotonically and keep [0, 1].
Cube(x) == x * x * x

\* the number of steps into which the animation time is divided
Steps(anim) == IF anim = 0 THEN 1 ELSE anim

\* the denominator of every progress and height
Scale(anim) == Cube(Steps(anim))

\* a t that is not cut off at 1.0
Clamped_Unbounded(e, t, anim) ==
    IF anim = 0 THEN 1 ELSE Elapsed(e, t)

\* (elapsed / anim).min(1.0), in steps; with anim = 0 the quotient is NaN or
\* infinite and min gives 1.0
Clamped(e, t, anim) ==
    IF anim = 0 THEN 1
    ELSE IF Elapsed(e, t) < anim THEN Elapsed(e, t) ELSE anim

\* ease_out_cubic(t) = 1 - (1 - t)^3
EaseOutCubic(steps, anim) == Scale(anim) - Cube(Steps(anim) - steps)

\* ease_in_cubic(t) = t^3
EaseInCubic(steps, anim) == Cube(steps)

\* PopupState::entry_progress_at
EntryProgressAt(e, t, anim) ==
    CASE e.phase = "SlideIn" -> EaseOutCubic(Clamped(e, t, anim), anim)
      [] e.phase = "Display" -> Scale(anim)
      [] e.phase = "SlideOut" -> Scale(anim) - EaseInCubic(Clamped(e, t, anim), anim)

\* a fold that takes the smallest progress
MaxProgress_Min(es, t, anim) ==
    IF es = <<>> THEN 0
    ELSE CHOOSE p \in {EntryProgressAt(es[i], t, anim) : i \in 1..Len(es)} :
            \A i \in 1..Len(es) : p <= EntryProgressAt(es[i], t, anim)

\* entries.iter().map(|e| self.entry_progress_at(e, now)).fold(0.0, f32::max)
MaxProgress(es, t, anim) ==
    IF es = <<>> THEN 0
    ELSE CHOOSE p \in {EntryProgressAt(es[i], t, anim) : i \in 1..Len(es)} :
            \A i \in 1..Len(es) : p >= EntryProgressAt(es[i], t, anim)

\* a height that counts every entry, SlideOut included
TargetSurfaceHeightAt_AllEntries(es, t, anim) ==
    IF es # <<>> THEN (Len(es) * EntryHeight + Padding) * Scale(anim) ELSE 0

\* PopupState::target_surface_height_at
TargetSurfaceHeightAt(es, t, anim) ==
    IF Visible(es) > 0
    THEN (Visible(es) * EntryHeight + Padding) * Scale(anim)
    ELSE IF es # <<>>
    THEN (Len(es) * EntryHeight + Padding) * MaxProgress(es, t, anim)
    ELSE 0

\* Action::ShowPopup(n): nothing is enqueued when popups are disabled or the
\* notification menu is open
ShowPopup(n, menu_is_open) ==
    entries' = IF ~popup_enabled \/ menu_is_open THEN entries
               ELSE Enqueue(entries, n, popup_duration, now, max_visible)

\* ----------------------------- Notifications::update (modules/notifications.rs)

\* An is_replacement test that never finds the id.
HasId_Never(list, id) == FALSE

\* service.notifications.iter().any(|existing| existing.id == n.id)
HasId(list, id) == \E i \in 1..Len(list) : list[i].id = id

\* Message::Event(event)
HandleEvent ==
    /\ output # <<>>
    /\ output' = Tail(output)
    /\ LET msg == Head(output)
       IN  IF msg.kind = "Init"
           THEN /\ service' = TRUE
                /\ notifications' = <<>>
                /\ UNCHANGED <<unread_count, entries>>
           ELSE IF service
           THEN /\ notifications' = Update(notifications, msg.event, max_notifications)
                /\ unread_count' =
                       IF /\ msg.event.type = "Notify"
                          /\ ~HasId(notifications, msg.event.n.id)
                       THEN unread_count + 1
                       ELSE unread_count
                /\ IF msg.event.type = "Notify"
                   THEN \E menu_is_open \in BOOLEAN : ShowPopup(msg.event.n, menu_is_open)
                   ELSE UNCHANGED entries
                /\ UNCHANGED service
           ELSE UNCHANGED <<moduleVars, entries>>
    /\ UNCHANGED <<daemonVars, rx, state, signals, emitVars, configVars, now, popupConfig, lifeVars>>

\* Notifications::update, Message::Dismiss(id): the change of the module; the
\* task it returns is DismissTask(id), which AppDismiss hands to the runtime
Dismiss(id) ==
    /\ notifications' = IF service THEN Retain(notifications, id) ELSE notifications
    /\ UNCHANGED <<daemonVars, rx, output, state, signals, emitVars, service, unread_count,
                   configVars, popupVars, popupConfig, lifeVars>>

\* Message::InvokeAction(id, action_key)
InvokeAction(id, action_key) ==
    /\ notifications' = IF service THEN Retain(notifications, id) ELSE notifications
    /\ UNCHANGED <<daemonVars, rx, output, state, signals, emitVars, service, unread_count,
                   configVars, popupVars, popupConfig, lifeVars>>

\* Message::ClearAll
ClearAll ==
    /\ notifications' = IF service THEN <<>> ELSE notifications
    /\ unread_count' = 0
    /\ UNCHANGED <<daemonVars, rx, output, state, signals, emitVars, service, configVars, popupVars, popupConfig,
                   lifeVars>>

\* Message::MenuOpened
MenuOpened ==
    /\ unread_count' = 0
    /\ entries' = <<>>
    /\ UNCHANGED <<daemonVars, rx, output, state, signals, emitVars, service, notifications,
                   configVars, now, popupConfig, lifeVars>>

\* -------------------------------------------- emission tasks (app.rs)

\* One call of an emit helper, as a step an emission task has still to make.
ActionInvokedSignal(id, key) == [name |-> "ActionInvoked", id |-> id, key |-> key]

ClosedSignal(id, reason) == [name |-> "NotificationClosed", id |-> id, reason |-> reason]

\* The future Message::Dismiss(id) returns: the emit calls it makes, in order.
DismissTask(id) == <<ClosedSignal(id, "Dismissed")>>

InvokeActionTask_ClosedFirst(id, action_key) ==
    <<ClosedSignal(id, "Dismissed"), ActionInvokedSignal(id, action_key)>>

\* The future Message::InvokeAction(id, action_key) returns.
InvokeActionTask(id, action_key) ==
    <<ActionInvokedSignal(id, action_key), ClosedSignal(id, "Dismissed")>>

ClearAllTask_SkipsNewest(list) ==
    [i \in 1..(Len(list) - 1) |-> ClosedSignal(list[i + 1].id, "Dismissed")]

\* The future Message::ClearAll returns: ids is collected from the list before
\* it is cleared.
ClearAllTask(list) ==
    [i \in 1..Len(list) |-> ClosedSignal(list[i].id, "Dismissed")]

\* Action::EmitSignal(task) => task.map(Message::Notifications): the runtime
\* holds the task until its future has made every call; a future with no call
\* to make is finished at once and its message changes nothing.
Running(task) == IF task = <<>> THEN tasks ELSE Append(tasks, task)

AppDismiss_ListKept(id) ==
    /\ notifications' = notifications
    /\ tasks' = IF service THEN Running(DismissTask(id)) ELSE tasks
    /\ UNCHANGED <<daemonVars, rx, output, state, signals, invoked, service, unread_count,
                   configVars, popupVars, popupConfig, lifeVars>>

\* Message::Notifications(Dismiss(id)): the module handles the message and
\* the task it returns goes to the runtime.
AppDismiss(id) ==
    /\ notifications' = IF service THEN Retain(notifications, id) ELSE notifications
    /\ tasks' = IF service THEN Running(DismissTask(id)) ELSE tasks
    /\ UNCHANGED <<daemonVars, rx, output, state, signals, invoked, service, unread_count,
                   configVars, popupVars, popupConfig, lifeVars>>

\* Message::Notifications(InvokeAction(id, action_key))
AppInvokeAction(id, action_key) ==
    /\ notifications' = IF service THEN Retain(notifications, id) ELSE notifications
    /\ tasks' = IF service THEN Running(InvokeActionTask(id, action_key)) ELSE tasks
    /\ UNCHANGED <<daemonVars, rx, output, state, signals, invoked, service, unread_count,
                   configVars, popupVars, popupConfig, lifeVars>>

\* Message::Notifications(ClearAll)
AppClearAll ==
    /\ notifications' = IF service THEN <<>> ELSE notifications
    /\ unread_count' = 0
    /\ tasks' = IF service THEN Running(ClearAllTask(notifications)) ELSE tasks
    /\ UNCHANGED <<daemonVars, rx, output, state, signals, invoked, service,
                   configVars, popupVars, popupConfig, lifeVars>>

\* The tasks without the first call of task i; a task that has made its last
\* call is finished (DismissSignalSent, ActionSignalSent and
\* ClearAllSignalsSent change nothing).
Stepped(ts, i) ==
    IF Len(ts[i]) = 1
    THEN [j \in 1..(Len(ts) - 1) |-> IF j < i THEN ts[j] ELSE ts[j + 1]]
    ELSE [ts EXCEPT ![i] = Tail(@)]

\* A pending task makes its next emit call. The helpers discard the result
\* of emit_signal, so a call that fails differs from one that succeeds only
\* in what reaches the bus: delivered says which.
TaskEmit(i, delivered) ==
    /\ i \in 1..Len(tasks)
    /\ LET s == Head(tasks[i])
       IN  /\ signals' = IF delivered /\ s.name = "NotificationClosed"
                         THEN Emitted(signals, s.id, s.reason)
                         ELSE signals
           /\ invoked' = IF delivered /\ s.name = "ActionInvoked"
                         THEN ActionEmitted(invoked, s.id, s.key)
                         ELSE invoked
    /\ tasks' = Stepped(tasks, i)
    /\ UNCHANGED <<daemonVars, rx, output, state, moduleVars, configVars, popupVars,
                   popupConfig, lifeVars>>

\* ------------------------------------------------ popup messages (app.rs)

\* Message::PopupTick, sent by the periodic subscription that exists while
\* popup_state.is_active()
Tick ==
    /\ IsActive(entries)
    /\ entries' = TickEntries(entries, now, animation_duration)
    /\ UNCHANGED <<daemonVars, rx, output, state, signals, emitVars, moduleVars, configVars,
                   now, popupConfig, lifeVars>>

\* Message::PopupDismiss(id)
PopupDismiss(id) ==
    /\ entries' = DismissEntry(entries, id, now)
    /\ notifications' = IF service THEN Retain(notifications, id) ELSE notifications
    /\ UNCHANGED <<daemonVars, rx, output, state, signals, emitVars, service, unread_count,
                   configVars, now, popupConfig, lifeVars>>

\* Message::ConfigChanged(config): refresh_config stores the new module
\* configuration and calls popup_state.update_config
ConfigChanged(enabled, visible, animation, duration) ==
    /\ popup_enabled' = enabled
    /\ max_visible' = visible
    /\ animation_duration' = animation
    /\ popup_duration' = duration
    /\ UNCHANGED <<daemonVars, rx, output, state, signals, emitVars, moduleVars, configVars,
                   popupVars, lifeVars>>

\* The monotonic clock advances.
AdvanceTime ==
    /\ now' = now + 1
    /\ UNCHANGED <<daemonVars, rx, output, state, signals, emitVars, moduleVars, configVars,
                   entries, popupConfig, lifeVars>>

\* The entries one unit of time later, seen from a clock that stays at MaxTime:
\* every phase_started moves one unit into the past, down to 0. Every duration
\* is below MaxTime, so an elapsed time of MaxTime stands for all longer ones.
Aged(es) ==
    [i \in 1..Len(es) |->
        [es[i] EXCEPT !.phase_started = IF @ > 0 THEN @ - 1 ELSE 0]]

\* The monotonic clock advances, without end, one unit at a time; the unit is
\* longer than the period of the tick subscription, so the polls due at the
\* current time have been made before the next unit begins.
TimePasses ==
    /\ ~TickChanged(entries, now, animation_duration)
    /\ IF now < MaxTime
       THEN now' = now + 1 /\ entries' = entries
       ELSE now' = now /\ entries' = Aged(entries)
    /\ UNCHANGED <<daemonVars, rx, output, state, signals, emitVars, moduleVars, configVars,
                   popupConfig, lifeVars>>

\* ------------------------------------------------------------ specifications

\* The state after construction, whatever the configuration.
Constructed ==
    /\ next_id = 1
    /\ timers = {}
    /\ rx = <<>>
    /\ output = <<>>
    /\ state = "Init"
    /\ service = FALSE
    /\ notifications = <<>>
    /\ unread_count = 0
    /\ calls = 0
    /\ issued = <<>>
    /\ wraps = 0
    /\ daemon = FALSE
    /\ receiver = TRUE
    /\ sending = <<>>
    /\ reply = 0
    /\ signals = [k \in ClosedSignals |-> 0]
    /\ invoked = [k \in InvokedSignals |-> 0]
    /\ tasks = <<>>
    /\ entries = <<>>
    /\ now = 0

\* A configuration with popups disabled.
PopupsOff ==
    /\ popup_enabled = FALSE
    /\ max_visible = 0
    /\ animation_duration = 0
    /\ popup_duration = 0

Init ==
    /\ Constructed
    /\ default_timeout \in DefaultTimeouts
    /\ max_notifications \in 0..MaxMaxNotifications
    /\ PopupsOff

UserNext ==
    \/ \E id \in Ids : Dismiss(id)
    \/ \E id \in Ids, k \in ActionKeys : InvokeAction(id, k)
    \/ ClearAll
    \/ MenuOpened

\* The number of NotificationClosed signals emitted with the reason.
SignalCount(reason) ==
    LET Sum[S \in SUBSET Ids] ==
            IF S = {} THEN 0
            ELSE LET i == CHOOSE x \in S : TRUE
                 IN  signals[[id |-> i, reason |-> reason]] + Sum[S \ {i}]
    IN  Sum[Ids]

\* CloseNotification calls are explored while fewer than MaxCloses were made.
CanClose == SignalCount("ByApi") < MaxCloses

\* The whole system during one subscription.
Next ==
    \/ /\ calls < MaxCalls
       /\ \E r \in ReplacesIds, u \in Urgency, tr \in BOOLEAN, e \in ExpireTimeouts :
             \/ Notify(r, u, tr, e)
             \/ NotifyBlocked(r, u, tr, e)
    \/ NotifyResume
    \/ \E t \in timers : TimerFire(t)
    \/ \E t \in timers : TimerEmit(t)
    \/ CanClose /\ \E id \in Ids : CloseNotification(id)
    \/ InitOk
    \/ InitFail
    \/ Relay
    \/ HandleEvent
    \/ UserNext

Spec == Init /\ [][Next]_vars

\* The daemon alone: the service it feeds retains nothing.
DaemonInit == Init /\ max_notifications = 0

\* The id counter under every replaces_id; with expire_timeout = 0 no call
\* spawns a timer.
CounterNext ==
    \/ /\ calls < MaxCounterCalls
       /\ \E r \in ReplacesIds :
             \/ Notify(r, "Normal", FALSE, 0)
             \/ NotifyBlocked(r, "Normal", FALSE, 0)
    \/ NotifyResume
    \/ InitOk
    \/ InitFail
    \/ Relay
    \/ HandleEvent

CounterSpec == DaemonInit /\ [][CounterNext]_vars

\* The daemon's calls when only the daemon is sure to run: a suspended notify
\* resumes as soon as its send can complete, while the relay loop and the
\* consumer may never be scheduled.
BlockingSpec == DaemonInit /\ [][CounterNext]_vars /\ WF_vars(NotifyResume)

\* The timer decision under every urgency, transient flag and expire_timeout.
DaemonNext ==
    \/ /\ calls < MaxDaemonCalls
       /\ \E u \in Urgency, tr \in BOOLEAN, e \in ExpireTimeouts :
             \/ Notify(0, u, tr, e)
             \/ NotifyBlocked(0, u, tr, e)
    \/ NotifyResume
    \/ \E t \in timers : TimerFire(t)
    \/ \E t \in timers : TimerEmit(t)
    \/ InitOk
    \/ InitFail
    \/ Relay
    \/ HandleEvent

DaemonSpec == DaemonInit /\ [][DaemonNext]_vars

\* Notify and CloseNotification calls against the retained list; with
\* expire_timeout = 0 no call spawns a timer.
ApiNext ==
    \/ /\ calls < MaxApiCalls
       /\ \E r \in ReplacesIds :
             \/ Notify(r, "Normal", FALSE, 0)
             \/ NotifyBlocked(r, "Normal", FALSE, 0)
    \/ NotifyResume
    \/ CanClose /\ \E id \in Ids : CloseNotification(id)
    \/ InitOk
    \/ InitFail
    \/ Relay
    \/ HandleEvent

ApiSpec == Init /\ [][ApiNext]_vars

\* The connection lifecycle: the daemon can be torn down and the subscription
\* dropped at any moment.
LifecycleNext ==
    \/ /\ calls < MaxLifeCalls
       /\ \E r \in ReplacesIds, e \in ExpireTimeouts :
             \/ Notify(r, "Normal", FALSE, e)
             \/ NotifyBlocked(r, "Normal", FALSE, e)
    \/ NotifyResume
    \/ \E t \in timers : TimerFire(t)
    \/ \E t \in timers : TimerEmit(t)
    \/ InitOk
    \/ InitFail
    \/ Relay
    \/ RelayClosed
    \/ DaemonDropped
    \/ SubscriptionDropped
    \/ HandleEvent

LifecycleSpec == DaemonInit /\ [][LifecycleNext]_vars

\* The popup engine with popups enabled: the service is running, retains
\* nothing and hands every Notify event to the host.
PopupInit ==
    /\ Constructed
    /\ default_timeout = 0
    /\ max_notifications = 0
    /\ popup_enabled = TRUE
    /\ max_visible \in 0..MaxMaxVisible
    /\ animation_duration \in AnimationDurations
    /\ popup_duration \in DisplayDurations

PopupNext ==
    \/ /\ calls < MaxPopupEvents
       /\ \E id \in Ids : ReceiveNotify(id, "Normal", FALSE, 0)
    \/ InitOk
    \/ HandleEvent
    \/ Tick
    \/ \E id \in Ids : PopupDismiss(id)
    \/ \E d \in DisplayDurations :
          ConfigChanged(popup_enabled, max_visible, animation_duration, d)
    \/ now < MaxTime /\ AdvanceTime

PopupSpec == PopupInit /\ [][PopupNext]_vars

\* The max_visible cap: notifications of every urgency are enqueued while the
\* configuration changes max_visible; no time passes.
EvictionInit ==
    /\ PopupInit
    /\ animation_duration = 1
    /\ popup_duration = 1

EvictionNext ==
    \/ /\ calls < MaxPopupEvents
       /\ \E id \in Ids, urgency \in Urgency : ReceiveNotify(id, urgency, FALSE, 0)
    \/ InitOk
    \/ HandleEvent
    \/ \E id \in Ids : PopupDismiss(id)
    \/ \E visible \in 0..MaxMaxVisible :
          ConfigChanged(popup_enabled, visible, animation_duration, popup_duration)

EvictionSpec == EvictionInit /\ [][EvictionNext]_vars

\* no notification is left to enqueue
NoEnqueueLeft ==
    /\ calls = MaxPopupEvents
    /\ \A i \in 1..Len(output) : output[i].kind = "Init"

\* The popup engine over unbounded time: the host keeps polling tick while
\* an entry is there (the subscription of app.rs) and the clock keeps running.
DrainNext ==
    \/ /\ calls < MaxPopupEvents
       /\ \E id \in Ids : ReceiveNotify(id, "Normal", FALSE, 0)
    \/ InitOk
    \/ HandleEvent
    \/ Tick
    \/ \E id \in Ids : PopupDismiss(id)
    \/ TimePasses

\* Popups enabled, under every animation_duration up to MaxAnimation.
DrainInit ==
    /\ Constructed
    /\ default_timeout = 0
    /\ max_notifications = 0
    /\ popup_enabled = TRUE
    /\ max_visible \in 0..MaxMaxVisible
    /\ animation_duration \in 0..MaxAnimation
    /\ popup_duration \in DisplayDurations

DrainSpec ==
    DrainInit /\ [][DrainNext]_vars /\ WF_vars(Tick) /\ WF_vars(TimePasses)

\* The service and the module under every event and every user message.
ServiceNext ==
    \/ /\ calls < MaxEvents
       /\ \E id \in Ids, u \in Urgency, tr \in BOOLEAN, e \in ExpireTimeouts :
             ReceiveNotify(id, u, tr, e)
    \/ \E id \in Ids, reason \in CloseReason : ReceiveClosed(id, reason)
    \/ InitOk
    \/ InitFail
    \/ HandleEvent
    \/ UserNext

\* The service never reads default_timeout.
ServiceInit == Init /\ default_timeout = 0

ServiceSpec == ServiceInit /\ [][ServiceNext]_vars

\* The number of ActionInvoked signals emitted.
InvokedCount ==
    LET Sum[S \in SUBSET InvokedSignals] ==
            IF S = {} THEN 0
            ELSE LET k == CHOOSE x \in S : TRUE
                 IN  invoked[k] + Sum[S \ {k}]
    IN  Sum[InvokedSignals]

\* The emit calls pending tasks have still to make.
PendingCalls ==
    LET Sum[i \in 0..Len(tasks)] ==
            IF i = 0 THEN 0 ELSE Len(tasks[i]) + Sum[i - 1]
    IN  Sum[Len(tasks)]

\* The user messages and the emission tasks they start: the service receives
\* persistent notifications, the user dismisses them, invokes their actions
\* and clears the list, and the runtime runs the tasks, each call one step,
\* in any interleaving with the messages. The user sends a message while
\* fewer than MaxEmissions calls are pending or were delivered.
EmissionNext ==
    \/ /\ calls < MaxEvents
       /\ \E id \in Ids : ReceiveNotify(id, "Normal", FALSE, 0)
    \/ InitOk
    \/ HandleEvent
    \/ /\ PendingCalls + InvokedCount + SignalCount("Dismissed") < MaxEmissions
       /\ \/ \E id \in Ids : AppDismiss(id)
          \/ \E id \in Ids, action_key \in ActionKeys : AppInvokeAction(id, action_key)
          \/ AppClearAll
    \/ \E i \in 1..Len(tasks), delivered \in BOOLEAN : TaskEmit(i, delivered)

EmissionInit ==
    /\ Constructed
    /\ PopupsOff
    /\ default_timeout = 0
    /\ max_notifications = MaxMaxNotifications

EmissionSpec == EmissionInit /\ [][EmissionNext]_vars

\* The close paths of one notification against each other: a Notify call
\* with a positive expire_timeout spawns the expiry timer, a client calls
\* CloseNotification and the user dismisses, in every interleaving of the
\* timer, the channel, the relay loop, the consumer and the emission tasks.
\* Every call gets a fresh id, at most MaxCloses of them a timer; the client
\* closes ids it was given and the user dismisses entries the menu lists.
CloseRaceNext ==
    \/ /\ calls < MaxApiCalls
       /\ \E e \in {0, 1} :
             /\ e = 1 => Cardinality(timers) < MaxCloses
             /\ Notify(0, "Normal", FALSE, e)
    \/ \E t \in timers : TimerFire(t)
    \/ \E t \in timers : TimerEmit(t)
    \/ CanClose /\ \E i \in 1..Len(issued) : CloseNotification(issued[i].id)
    \/ InitOk
    \/ Relay
    \/ HandleEvent
    \/ /\ PendingCalls + SignalCount("Dismissed") < MaxCloses
       /\ \E id \in Ids : HasId(notifications, id) /\ AppDismiss(id)
    \/ \E i \in 1..Len(tasks), delivered \in BOOLEAN : TaskEmit(i, delivered)

CloseRaceSpec == EmissionInit /\ [][CloseRaceNext]_vars

\* The id counter against the retained list: Notify calls under every
\* replaces_id, enough of them for the counter to wrap, each stored by a
\* service that retains up to MaxMaxNotifications entries.
ReuseNext ==
    \/ /\ calls < MaxCounterCalls
       /\ \E r \in ReplacesIds : Notify(r, "Normal", FALSE, 0)
    \/ InitOk
    \/ Relay
    \/ HandleEvent

ReuseSpec == EmissionInit /\ [][ReuseNext]_vars

\* ------------------------------------------------------------------ claims

\* The Notify events on their way to the service.
InFlight ==
    {rx[i].n : i \in {j \in 1..Len(rx) : rx[j].type = "Notify"}}
    \cup {output[i].event.n :
            i \in {j \in 1..Len(output) :
                     /\ output[j].kind = "Update"
                     /\ output[j].event.type = "Notify"}}

\* A timer was spawned by the call that built n.
TimerOf(n) == \E t \in timers : t.timestamp = n.timestamp

\* The step hands the head of output to NotificationService::update.
Applying ==
    /\ output # <<>>
    /\ service
    /\ Head(output).kind = "Update"
    /\ output' = Tail(output)

ApplyingNotify == Applying /\ Head(output).event.type = "Notify"

ApplyingClosed == Applying /\ Head(output).event.type = "Closed"

\* The head of output is a Notify event that update is about to apply.
NotifyPending ==
    /\ output # <<>>
    /\ service
    /\ Head(output).kind = "Update"
    /\ Head(output).event.type = "Notify"

ClosedPending ==
    /\ output # <<>>
    /\ service
    /\ Head(output).kind = "Update"
    /\ Head(output).event.type = "Closed"

CountId(list, id) == Cardinality({i \in 1..Len(list) : list[i].id = id})

Storable(n) == ~(n.transient /\ n.urgency # "Critical")

\* C1: every id the counter hands out (replaces_id = 0) is not 0, and of two
\* ids handed out within one counter lifetime the later is strictly greater.
C1_IssuedIdsIncrease ==
    \A i \in 1..Len(issued) :
        /\ issued[i].id # 0
        /\ \A j \in (i + 1)..Len(issued) :
              issued[j].epoch = issued[i].epoch => issued[j].id > issued[i].id

C1_Witness ==
    /\ Len(issued) >= 3
    /\ issued[1].epoch = issued[2].epoch
    /\ issued[3].epoch > issued[2].epoch

\* C2: the retained list holds at most one notification per id.
C2_UniqueIds ==
    \A i, j \in 1..Len(notifications) :
        i # j => notifications[i].id # notifications[j].id

C2_Witness ==
    /\ NotifyPending
    /\ Len(notifications) >= 1
    /\ HasId(notifications, Head(output).event.n.id)

C4_LengthBounded == Len(notifications) <= max_notifications

C4_Witness ==
    /\ NotifyPending
    /\ max_notifications = 0
    /\ Storable(Head(output).event.n)

C7_ClosedRemovesOnce ==
    [][ApplyingClosed
        => LET id == Head(output).event.id
               at == {i \in 1..Len(notifications) : notifications[i].id = id}
           IN  /\ at = {} => notifications' = notifications
               /\ \A p \in at :
                     notifications' =
                        SubSeq(notifications, 1, p - 1)
                        \o SubSeq(notifications, p + 1, Len(notifications))
               /\ Update(notifications', Head(output).event, max_notifications)
                     = notifications']_vars

C7_Witness ==
    /\ ClosedPending
    /\ Len(notifications) = 2
    /\ notifications[1].id = Head(output).event.id

\* C8: a Notify call with Critical urgency never spawns an expiry timer.
C8_CriticalNeverSchedules ==
    \A n \in InFlight : n.urgency = "Critical" => ~TimerOf(n)

C8_Witness ==
    \E n \in InFlight :
        /\ n.urgency = "Critical"
        /\ n.expire_timeout < 0
        /\ default_timeout > 0

\* C9 as stated: no Closed(id, Expired) event removes a stored Critical
\* notification.
C9_CriticalOutlivesTimers ==
    [][~(/\ ApplyingClosed
         /\ Head(output).event.reason = "Expired"
         /\ \E i \in 1..Len(notifications) :
               /\ notifications[i].id = Head(output).event.id
               /\ notifications[i].urgency = "Critical"
         /\ ~HasId(notifications', Head(output).event.id))]_vars

\* C10: a Notify call that is not Critical spawns a timer exactly when its
\* effective timeout (default_timeout for expire_timeout < 0, expire_timeout
\* otherwise) is greater than 0.
C10_TimerIffEffectiveTimeout ==
    \A n \in InFlight :
        n.urgency # "Critical"
        => (TimerOf(n)
            <=> (IF n.expire_timeout < 0 THEN default_timeout
                 ELSE n.expire_timeout) > 0)

C10_Witness ==
    \E n \in InFlight :
        /\ n.urgency # "Critical"
        /\ n.expire_timeout < 0
        /\ default_timeout > 0
        /\ TimerOf(n)

\* The step appends a Closed(_, Expired) event to the daemon's channel.
ExpiredSent ==
    /\ Len(rx') = Len(rx) + 1
    /\ rx'[Len(rx')].type = "Closed"
    /\ rx'[Len(rx')].reason = "Expired"

\* The step emits a NotificationClosed(_, 1) signal.
ExpiredEmitted ==
    \E id \in Ids : signals'[[id |-> id, reason |-> "Expired"]]
                       # signals[[id |-> id, reason |-> "Expired"]]

\* C11: a Notify call spawns at most one timer, for the id it returns; a
\* timer sends one Closed(id, Expired), then emits one NotificationClosed(id, 1),
\* then is finished; nothing else sends an Expired event or emits that signal.
C11_TimerFiresOnce ==
    [][/\ Cardinality(timers') <= Cardinality(timers) + 1
       /\ \A t \in timers' \ timers :
             t.pc = "sleep" => (/\ calls' = calls + 1 \/ sending' # sending
                                /\ t.id = reply'
                                /\ timers' = timers \cup {t})
       /\ \A t \in timers :
             \/ t \in timers'
             \/ /\ t.pc = "sleep"
                /\ timers' = (timers \ {t}) \cup {[t EXCEPT !.pc = "emit"]}
                /\ rx' = Append(rx, ClosedEvent(t.id, "Expired"))
                /\ signals' = signals
             \/ /\ t.pc = "emit"
                /\ timers' = (timers \ {t}) \cup {[t EXCEPT !.pc = "done"]}
                /\ signals' = Emitted(signals, t.id, "Expired")
                /\ rx' = rx
       /\ ExpiredSent => \E t \in timers : t.pc = "sleep" /\ t \notin timers'
       /\ ExpiredEmitted => \E t \in timers : t.pc = "emit" /\ t \notin timers'
      ]_vars

C11_Witness ==
    \E t \in timers :
        /\ t.pc = "done"
        /\ signals[[id |-> t.id, reason |-> "Expired"]] = 1

\* The step is a CloseNotification(id) call.
Closing(id) ==
    signals'[[id |-> id, reason |-> "ByApi"]] # signals[[id |-> id, reason |-> "ByApi"]]

\* C12: CloseNotification(id) sends Closed(id, ByApi) and emits
\* NotificationClosed(id, 3) once, whatever the id, without touching the
\* retained list; applying Closed(id, ByApi) removes the entry with that id
\* and changes nothing when there is none.
C12_CloseByApi ==
    [][/\ \A id \in Ids :
             Closing(id)
             => /\ signals' = Emitted(signals, id, "ByApi")
                /\ receiver => rx' = Append(rx, ClosedEvent(id, "ByApi"))
                /\ notifications' = notifications
                /\ state' = state
       /\ (ApplyingClosed /\ Head(output).event.reason = "ByApi")
          => LET id == Head(output).event.id
             IN  IF HasId(notifications, id)
                 THEN /\ ~HasId(notifications', id)
                      /\ notifications' = SelectSeq(notifications, LAMBDA n : n.id # id)
                      /\ Len(notifications') = Len(notifications) - 1
                 ELSE notifications' = notifications
      ]_vars

C12_Witness ==
    /\ ClosedPending
    /\ Head(output).event.reason = "ByApi"
    /\ HasId(notifications, Head(output).event.id)
    /\ signals[[id |-> Head(output).event.id, reason |-> "ByApi"]] = 1

\* C13: the lifecycle only steps Init -> Active, Init -> Error and
\* Active -> Error, the last only when the channel is closed and drained;
\* in Error the state never changes and no Init or Update event is delivered.
C13_LifecycleOneWay ==
    [][/\ state' # state
          => \/ state = "Init" /\ state' \in {"Active", "Error"}
             \/ /\ state = "Active"
                /\ state' = "Error"
                /\ rx = <<>>
                /\ ~daemon
       /\ state = "Error"
          => /\ state' = "Error"
             /\ output' = output \/ output' = Tail(output)
      ]_vars

C13_Witness ==
    /\ state = "Error"
    /\ service
    /\ calls >= 1

\* C14: a Notify call made after the receiver was dropped completes at once:
\* it returns the assigned id, advances the counter as a successful call
\* does, and publishes nothing.
C14_SendFailureSwallowed ==
    [][(~receiver /\ calls' = calls + 1)
        => /\ sending' = <<>>
           /\ rx' = rx
           /\ IF Len(issued') > Len(issued)
              THEN /\ reply' = next_id
                   /\ next_id' = NextId(next_id)
              ELSE /\ reply' \in Ids
                   /\ next_id' = next_id
      ]_vars

\* The receiver is gone and the registered daemon is ready for a Notify call.
C14_Witness ==
    /\ ~receiver
    /\ daemon
    /\ sending = <<>>
    /\ calls < MaxLifeCalls

\* C15 as stated: every Notify call eventually returns, also when the channel
\* is full and the consumer is not draining it.
C15_NotifyReturns == (sending # <<>>) ~> (sending = <<>>)

\* ------------------------------------------------------ popup engine claims

\* no two entries carry the same notification id
UniqueIds(es) ==
    \A i, j \in 1..Len(es) :
        i # j => es[i].notification.id # es[j].notification.id

\* the positions of the entries with this id
WithId(es, id) == {i \in 1..Len(es) : es[i].notification.id = id}

\* the module is about to hand this Notify event to the host
Showing ==
    /\ output # <<>>
    /\ service
    /\ Head(output).kind = "Update"
    /\ Head(output).event.type = "Notify"

\* this step enqueues the notification at the head of output
Enqueuing == Showing /\ output' = Tail(output) /\ entries' # entries

\* this step enqueues a notification whose id already has an entry
Replacing == Enqueuing /\ Find(entries, Head(output).event.n.id) # 0

\* after the step exactly one entry has the id of n: the last one, built from
\* n at the current time
ReplacedBy(n) ==
    /\ entries' # <<>>
    /\ WithId(entries', n.id) = {Len(entries')}
    /\ entries'[Len(entries')].notification = n
    /\ entries'[Len(entries')].phase_started = now

Rank(phase) ==
    CASE phase = "SlideIn" -> 0
      [] phase = "Display" -> 1
      [] phase = "SlideOut" -> 2

\* the list holds an entry for this very notification
Holds(es, n) == \E i \in 1..Len(es) : es[i].notification = n

\* the entry the list holds for this notification
EntryOf(es, n) == es[CHOOSE i \in 1..Len(es) : es[i].notification = n]

\* this step enqueues a notification with the id of e
Reenqueued(e) == Enqueuing /\ Head(output).event.n.id = e.notification.id

\* this step is a dismiss of e or an enqueue
DismissedOrEvicted(e) ==
    \/ entries' = DismissEntry(entries, e.notification.id, now)
    \/ Enqueuing

\* e is still there after the step, not behind where it was, and it went
\* from SlideIn straight to SlideOut only by dismiss or eviction
MovedForward(e) ==
    /\ Holds(entries', e.notification)
    /\ Rank(EntryOf(entries', e.notification).phase) >= Rank(e.phase)
    /\ (e.phase = "SlideIn" /\ EntryOf(entries', e.notification).phase = "SlideOut")
       => DismissedOrEvicted(e)

\* a tick with animation_duration = 0 takes a Display entry whose display time
\* is over through SlideOut and out of the list in one call
PassedThroughSlideOut(e) ==
    /\ animation_duration = 0
    /\ e.phase = "Display"
    /\ Elapsed(e, now) >= e.display_duration
    /\ entries' = TickEntries(entries, now, animation_duration)

Moved(e, phase) == [e EXCEPT !.phase = phase, !.phase_started = now]

\* the outcome of a tick for e is: the list holds f in its place
Becomes(es, e, f) ==
    /\ Holds(es, e.notification)
    /\ EntryOf(es, e.notification) = f

\* what the thresholds of tick ask for an entry in SlideIn or SlideOut
ThresholdsInOut(es, e) ==
    /\ (e.phase = "SlideIn" /\ now - e.phase_started >= animation_duration)
       => Becomes(es, e, Moved(e, "Display"))
    /\ (e.phase = "SlideIn" /\ now - e.phase_started < animation_duration)
       => Becomes(es, e, e)
    /\ (e.phase = "Display" /\ now - e.phase_started < e.display_duration)
       => Becomes(es, e, e)
    /\ (e.phase = "SlideOut" /\ now - e.phase_started >= animation_duration)
       => ~Holds(es, e.notification)
    /\ (e.phase = "SlideOut" /\ now - e.phase_started < animation_duration)
       => Becomes(es, e, e)

PhaseChangedOrRemoved(es, e) ==
    \/ ~Holds(es, e.notification)
    \/ EntryOf(es, e.notification).phase # e.phase

\* C19: tick returns true if and only if at least one entry changed phase or
\* was removed during the call, and when it returns false the entries are
\* exactly as before the call.
C19_TickReportsChange ==
    LET after == TickEntries(entries, now, animation_duration)
        changed == TickChanged(entries, now, animation_duration)
    IN  /\ changed <=> \E i \in 1..Len(entries) :
                          PhaseChangedOrRemoved(after, entries[i])
        /\ ~changed => after = entries

\* every entry is in SlideOut and one of them is due for removal, so the
\* next tick changes no phase and removes an entry
C19_Witness ==
    /\ animation_duration = 1
    /\ entries # <<>>
    /\ \A i \in 1..Len(entries) : entries[i].phase = "SlideOut"
    /\ \E i \in 1..Len(entries) : now - entries[i].phase_started >= 1

\* C20: dismiss(id) on an entry in SlideIn or Display puts that entry in
\* SlideOut with phase_started = now and leaves every other entry and the
\* order of the entries unchanged.
C20_DismissToSlideOut ==
    \A i \in 1..Len(entries) :
        entries[i].phase \in {"SlideIn", "Display"}
        => LET after == DismissEntry(entries, entries[i].notification.id, now)
           IN  /\ Len(after) = Len(entries)
               /\ after[i] = Moved(entries[i], "SlideOut")
               /\ \A j \in 1..Len(entries) : j # i => after[j] = entries[j]

\* two entries, one of them in SlideIn or Display since before the current
\* time and so open to a dismiss that changes its phase_started
C20_Witness ==
    /\ Len(entries) = 2
    /\ \E i \in 1..Len(entries) :
          /\ entries[i].phase \in {"SlideIn", "Display"}
          /\ entries[i].phase_started < now

\* C21 as stated: dismiss(id) changes nothing when id has no entry or when
\* its entry is already in SlideOut, phase_started included.
C21_DismissNoop ==
    \A id \in Ids :
        (Find(entries, id) = 0 \/ entries[Find(entries, id)].phase = "SlideOut")
        => DismissEntry(entries, id, now) = entries

\* the entries right after enqueue has appended the entry of n
Appended(n) ==
    Append(SelectSeq(entries, LAMBDA e : e.notification.id # n.id),
           [notification |-> n, phase |-> "SlideIn", phase_started |-> now,
            display_duration |-> popup_duration])

\* the positions of the entries not in SlideOut
NonSlideOut(es) == {i \in 1..Len(es) : es[i].phase # "SlideOut"}

\* max(0, k - max_visible) for the k entries not in SlideOut
Surplus(es) ==
    IF Cardinality(NonSlideOut(es)) > max_visible
    THEN Cardinality(NonSlideOut(es)) - max_visible
    ELSE 0

\* the k lowest positions of S
Lowest(S, k) == {i \in S : Cardinality({j \in S : j < i}) < k}

\* C22: enqueue forces into SlideOut exactly max(0, k - max_visible) entries,
\* k being the number of entries not in SlideOut right after the append; they
\* are the ones at the lowest list positions, whatever their urgency, and no
\* other entry changes.
C22_EvictsOldestSurplus ==
    [][Enqueuing
       => LET a == Appended(Head(output).event.n)
              forced == Lowest(NonSlideOut(a), Surplus(a))
          IN  /\ Len(entries') = Len(a)
              /\ \A i \in 1..Len(a) :
                    entries'[i] = IF i \in forced
                                  THEN [a[i] EXCEPT !.phase = "SlideOut",
                                                    !.phase_started = now]
                                  ELSE a[i]]_vars

\* a Low notification is about to be enqueued while an older Critical entry
\* with another id is not in SlideOut and max_visible leaves room for one
C22_Witness ==
    /\ Showing
    /\ popup_enabled
    /\ max_visible = 1
    /\ Head(output).event.n.urgency = "Low"
    /\ \E i \in 1..Len(entries) :
          /\ entries[i].phase # "SlideOut"
          /\ entries[i].notification.urgency = "Critical"
          /\ entries[i].notification.id # Head(output).event.n.id

\* this step is a dismiss that changes an entry
Dismissing ==
    /\ now' = now
    /\ entries' # entries
    /\ \E id \in Ids : entries' = DismissEntry(entries, id, now)

\* C23: once no further enqueue happens and the steps are those of tick and
\* of the clock, tick being polled while time advances, every entry is
\* eventually removed and is_active() becomes false and stays false.
C23_PopupsDrain ==
    <>[][~Dismissing]_vars => (NoEnqueueLeft ~> [](~IsActive(entries)))

\* the last notification has been enqueued: its entry is in SlideIn, three
\* phase steps from its removal, behind an entry already in SlideOut
C23_Witness ==
    /\ NoEnqueueLeft
    /\ animation_duration = 2
    /\ Len(entries) = 2
    /\ entries[1].phase = "SlideOut"
    /\ entries[2].phase = "SlideIn"
    /\ entries[2].display_duration = 1

AllSlideOut(es) == es # <<>> /\ \A i \in 1..Len(es) : es[i].phase = "SlideOut"

\* this step is a tick
TickStep ==
    /\ now' = now
    /\ entries' = TickEntries(entries, now, animation_duration)

\* this step is the clock moving on by one unit
ClockStep ==
    \/ now' = now + 1 /\ entries' = entries
    \/ now = MaxTime /\ now' = now /\ entries' = Aged(entries)

\* C25: from a state whose entries are all in SlideOut, the clock moving on
\* and tick (also one that removes entries) never raise
\* target_surface_height_at, and the height is 0 once the slide-out of every
\* entry is over.
C25_HeightShrinks ==
    [][AllSlideOut(entries)
       => /\ (TickStep \/ ClockStep)
             => TargetSurfaceHeightAt(entries', now', animation_duration)
                <= TargetSurfaceHeightAt(entries, now, animation_duration)
          /\ (\A i \in 1..Len(entries) :
                 now - entries[i].phase_started >= animation_duration)
             => TargetSurfaceHeightAt(entries, now, animation_duration) = 0]_vars

\* two entries in SlideOut: the slide-out of the first is over and it is due
\* for removal, the second is half way
C25_Witness ==
    /\ animation_duration = 2
    /\ Len(entries) = 2
    /\ AllSlideOut(entries)
    /\ now - entries[1].phase_started >= 2
    /\ now - entries[2].phase_started = 1

\* the times at which the progress of an entry is sampled: from the start of
\* its phase until well after the end of the animation
SampleTimes(e) == e.phase_started..(MaxTime + MaxAnimation)

\* C26: for a fixed entry entry_progress_at does not fall with time in
\* SlideIn, is 1 in Display, does not grow with time in SlideOut, and is in
\* [0, 1] at every time, for every animation_duration.
C26_ProgressMonotone ==
    \A i \in 1..Len(entries) :
        LET e == entries[i]
            progress(t) == EntryProgressAt(e, t, animation_duration)
        IN  \A t1 \in SampleTimes(e) :
                /\ 0 <= progress(t1)
                /\ progress(t1) <= Scale(animation_duration)
                /\ e.phase = "Display" => progress(t1) = Scale(animation_duration)
                /\ \A t2 \in SampleTimes(e) :
                      t1 <= t2
                      => /\ e.phase = "SlideIn" => progress(t1) <= progress(t2)
                         /\ e.phase = "SlideOut" => progress(t1) >= progress(t2)

\* with animation_duration = 2 an entry is in SlideIn and an entry is half
\* way through its slide-out
C26_Witness ==
    /\ animation_duration = 2
    /\ \E i \in 1..Len(entries) : entries[i].phase = "SlideIn"
    /\ \E i \in 1..Len(entries) :
          entries[i].phase = "SlideOut" /\ now - entries[i].phase_started = 1

\* The step emits an ActionInvoked signal for id and key.
EmitsInvoked(id, key) ==
    invoked'[[id |-> id, key |-> key]] # invoked[[id |-> id, key |-> key]]

\* The step emits a NotificationClosed(id, 2) signal.
EmitsDismissed(id) ==
    signals'[[id |-> id, reason |-> "Dismissed"]] # signals[[id |-> id, reason |-> "Dismissed"]]

\* Task i has made its first pending call and nothing else happened to the tasks.
FirstCallMade(i) ==
    \/ /\ Len(tasks[i]) > 1
       /\ tasks' = [tasks EXCEPT ![i] = Tail(@)]
    \/ /\ Len(tasks[i]) = 1
       /\ Len(tasks') = Len(tasks) - 1
       /\ \A j \in 1..Len(tasks') : tasks'[j] = IF j < i THEN tasks[j] ELSE tasks[j + 1]

\* C27: when the user invokes an action on a notification, its entry leaves
\* the retained list and the task that starts has two calls to make,
\* ActionInvoked(id, key) first and NotificationClosed(id, 2) second; a plain
\* dismissal starts a task with the NotificationClosed(id, 2) call alone. An
\* ActionInvoked(id, key) signal reaches the bus only as the first call of an
\* action task, one signal per call, with that task's NotificationClosed(id, 2)
\* still to come; a NotificationClosed(id, 2) signal reaches the bus only as
\* the first pending call of a task, one signal per call, and the call is
\* not made again.
C27_ActionThenClosed ==
    [][/\ \A id \in Ids, key \in ActionKeys :
            AppInvokeAction(id, key) /\ service
            => /\ ~HasId(notifications', id)
               /\ tasks' = Append(tasks,
                      << [name |-> "ActionInvoked", id |-> id, key |-> key],
                         [name |-> "NotificationClosed", id |-> id, reason |-> "Dismissed"] >>)
               /\ invoked' = invoked
               /\ signals' = signals
       /\ \A id \in Ids :
            AppDismiss(id) /\ service
            => /\ tasks' = Append(tasks,
                      << [name |-> "NotificationClosed", id |-> id, reason |-> "Dismissed"] >>)
               /\ invoked' = invoked
               /\ signals' = signals
       /\ \A id \in Ids, key \in ActionKeys :
            EmitsInvoked(id, key)
            => /\ invoked' = [invoked EXCEPT ![[id |-> id, key |-> key]] = @ + 1]
               /\ signals' = signals
               /\ \E i \in 1..Len(tasks) :
                     /\ tasks[i] = << [name |-> "ActionInvoked", id |-> id, key |-> key],
                                      [name |-> "NotificationClosed", id |-> id,
                                       reason |-> "Dismissed"] >>
                     /\ FirstCallMade(i)
       /\ \A id \in Ids :
            EmitsDismissed(id)
            => /\ signals' = [signals EXCEPT ![[id |-> id, reason |-> "Dismissed"]] = @ + 1]
               /\ invoked' = invoked
               /\ \E i \in 1..Len(tasks) :
                     /\ Head(tasks[i]) = [name |-> "NotificationClosed", id |-> id,
                                          reason |-> "Dismissed"]
                     /\ FirstCallMade(i)
      ]_vars

\* An action task between its two calls: ActionInvoked(id, key) is on the bus,
\* the entry is gone and NotificationClosed(id, 2) is still to be emitted.
C27_Witness ==
    \E id \in Ids, key \in ActionKeys :
        /\ invoked[[id |-> id, key |-> key]] = 1
        /\ signals[[id |-> id, reason |-> "Dismissed"]] = 0
        /\ ~HasId(notifications, id)
        /\ notifications # <<>>
        /\ tasks = << << [name |-> "NotificationClosed", id |-> id, reason |-> "Dismissed"] >> >>

\* The calls of the task that are NotificationClosed(id, 2).
DismissedCalls(task, id) ==
    {i \in 1..Len(task) :
        task[i] = [name |-> "NotificationClosed", id |-> id, reason |-> "Dismissed"]}

\* C28: the step that handles ClearAll leaves the retained list empty and
\* unread_count at 0, and emits nothing itself; the task it starts has, for
\* each id of the list as it was before the step, exactly one
\* NotificationClosed(id, 2) call, and no other call (clearing an empty list
\* starts no call at all). No pending task has two NotificationClosed(id, 2)
\* calls for one id.
C28_ClearAllOnePerId ==
    [][/\ AppClearAll => unread_count' = 0
       /\ AppClearAll /\ service
          => /\ notifications' = <<>>
             /\ signals' = signals
             /\ invoked' = invoked
             /\ IF notifications = <<>>
                THEN tasks' = tasks
                ELSE /\ Len(tasks') = Len(tasks) + 1
                     /\ \A i \in 1..Len(tasks) : tasks'[i] = tasks[i]
                     /\ LET task == tasks'[Len(tasks')]
                        IN  /\ \A id \in Ids :
                                   Cardinality(DismissedCalls(task, id))
                                       = IF HasId(notifications, id) THEN 1 ELSE 0
                            /\ \A i \in 1..Len(task) :
                                   \E id \in Ids : i \in DismissedCalls(task, id)
       /\ \A i \in 1..Len(tasks), id \in Ids :
              Cardinality(DismissedCalls(tasks[i], id)) <= 1
      ]_vars

\* A list of two notifications has been cleared: the list is empty, nothing is
\* unread, and the task has one call for each of the two ids still to make.
C28_Witness ==
    /\ service
    /\ notifications = <<>>
    /\ unread_count = 0
    /\ Len(tasks) = 1
    /\ Len(tasks[1]) = 2
    /\ tasks[1][1].id # tasks[1][2].id
    /\ SignalCount("Dismissed") = 0

\* The step is a call made by a pending emission task, delivered or failed.
EmissionStep == \E i \in 1..Len(tasks), delivered \in BOOLEAN : TaskEmit(i, delivered)

\* C29: the step that handles Dismiss(id) or InvokeAction(id, key) leaves the
\* retained list without an entry for id, and the step that handles ClearAll
\* leaves it empty, while the task the step starts is pending and has emitted
\* nothing yet; a call of an emission task, whether its signal is delivered
\* or fails, and a task that never makes its calls, change neither the list
\* nor unread_count.
C29_MutationBeforeEmission ==
    [][/\ \A id \in Ids :
            service /\ (AppDismiss(id) \/ \E key \in ActionKeys : AppInvokeAction(id, key))
            => /\ ~HasId(notifications', id)
               /\ \A i \in 1..Len(notifications') : HasId(notifications, notifications'[i].id)
               /\ Len(tasks') = Len(tasks) + 1
               /\ signals' = signals
               /\ invoked' = invoked
       /\ service /\ AppClearAll
            => /\ notifications' = <<>>
               /\ notifications # <<>> => Len(tasks') = Len(tasks) + 1
               /\ signals' = signals
               /\ invoked' = invoked
       /\ EmissionStep
            => /\ notifications' = notifications
               /\ unread_count' = unread_count
               /\ service' = service
      ]_vars

\* Two notifications arrived and one was dismissed: its entry is gone while
\* the task that will emit its NotificationClosed is still pending and no
\* such signal has reached the bus.
C29_Witness ==
    \E id \in Ids :
        /\ unread_count = 2
        /\ Len(notifications) = 1
        /\ ~HasId(notifications, id)
        /\ tasks = << << [name |-> "NotificationClosed", id |-> id, reason |-> "Dismissed"] >> >>
        /\ SignalCount("Dismissed") = 0
        /\ InvokedCount = 0

\* The step applies a Closed event for id to the retained list.
ClosedApplied(id) == ApplyingClosed /\ Head(output).event.id = id

\* The entries of the list whose id is not id, in their order.
Others(list, id) ==
    LET keep == {i \in 1..Len(list) : list[i].id # id}
    IN  [k \in 1..Cardinality(keep) |->
            list[CHOOSE i \in keep : Cardinality({j \in keep : j <= i}) = k]]

\* C30: whichever close path acts on the retained list, the Closed(id, _)
\* event of an expiry timer or of CloseNotification, or the user's dismissal,
\* and in whatever order they come, the list after the step has no entry
\* for id and holds every other entry as it was, in the same order; when the
\* id was already removed the step leaves the list as it is. No such step
\* changes unread_count.
C30_CloseRaceHarmless ==
    [][\A id \in Ids :
          ClosedApplied(id) \/ (service /\ AppDismiss(id))
          => /\ ~HasId(notifications', id)
             /\ notifications' = Others(notifications, id)
             /\ ~HasId(notifications, id) => notifications' = notifications
             /\ unread_count' = unread_count
      ]_vars

\* The timer's Closed(id, Expired) is about to be applied after the user has
\* dismissed id: the entry is already gone and another entry is retained.
C30_Witness ==
    \E id \in Ids :
        /\ service
        /\ output # <<>>
        /\ Head(output) = UpdateMessage(ClosedEvent(id, "Expired"))
        /\ ~HasId(notifications, id)
        /\ notifications # <<>>
        /\ PendingCalls + SignalCount("Dismissed") = 1
        /\ \A i \in 1..Len(tasks) : tasks[i][1].id = id
        /\ \A other \in Ids \ {id} : signals[[id |-> other, reason |-> "Dismissed"]] = 0

\* C31: an expiry removes only the notification of the Notify call whose
\* timer sent it: whenever a Closed(id, Expired) event is applied, the entry
\* retained under id, if there is one, was built by a call that spawned a
\* timer, and that timer's sleep is over.
C31_TimerRemovesOwnNotification ==
    [][ApplyingClosed /\ Head(output).event.reason = "Expired"
       => \A i \in 1..Len(notifications) :
             notifications[i].id = Head(output).event.id
             => \E t \in timers :
                   /\ t.timestamp = notifications[i].timestamp
                   /\ t.pc # "sleep"
      ]_vars

\* The NotificationClosed signals emitted for id, whatever the reason.
ClosedSignalsFor(id) ==
    signals[[id |-> id, reason |-> "Expired"]]
    + signals[[id |-> id, reason |-> "Dismissed"]]
    + signals[[id |-> id, reason |-> "ByApi"]]

\* C32: every Notify call of CloseRaceSpec gets a fresh id, so an id stands
\* for one notification that is never replaced; at most one NotificationClosed
\* signal is emitted for it, whichever of its timer, CloseNotification and
\* the user's dismissal run and in whatever order.
C32_OneClosedSignal ==
    \A id \in Ids : ClosedSignalsFor(id) <= 1

\* The step is a Notify call with replaces_id = 0: the counter hands out an id.
FreshCall == Len(issued') = Len(issued) + 1

\* The id the counter hands out in the step.
FreshId == issued'[Len(issued')].id

\* The counter has handed out id since it last wrapped.
IssuedThisEpoch(id) ==
    \E j \in 1..Len(issued) : issued[j].id = id /\ issued[j].epoch = wraps

\* C33 as stated: the id a Notify call with replaces_id = 0 assigns is not the
\* id of an entry of the retained list.
C33_FreshIdNotRetained ==
    [][FreshCall => ~HasId(notifications, FreshId)]_vars

\* C33, amended: the id a Notify call with replaces_id = 0 assigns is not the
\* id of any retained entry whose id the counter has handed out since it
\* last wrapped.
C33_FreshIdNotIssuedRetained ==
    [][FreshCall
       => \A i \in 1..Len(notifications) :
             IssuedThisEpoch(notifications[i].id) => notifications[i].id # FreshId
      ]_vars

\* The counter has handed out a second id in one lifetime while the
\* notification stored under the first is retained.
C33_Witness ==
    /\ Len(issued) >= 2
    /\ issued[Len(issued)].epoch = issued[Len(issued) - 1].epoch
    /\ HasId(notifications, issued[Len(issued) - 1].id)

\* The events on their way to the service, oldest first: those the relay loop
\* has passed on, then those still in the daemon's channel.
Channel ==
    LET relayed == SelectSeq(output, LAMBDA m : m.kind = "Update")
    IN  [i \in 1..Len(relayed) |-> relayed[i].event] \o rx

\* C34: a timer exists only once the Notify event of its call has been sent,
\* and wherever the Notify(n) event of a call and the Closed(id, Expired)
\* event of its timer are both on their way to the service, the Notify
\* event is ahead; every call of DaemonSpec gets a fresh id, so an Expired
\* event for n.id comes from n's timer.
C34_NotifyBeforeExpiry ==
    /\ \A t \in timers :
          sending = <<>> \/ sending[1].timestamp # t.timestamp
    /\ \A p, q \in 1..Len(Channel) :
          /\ Channel[p].type = "Notify"
          /\ Channel[q].type = "Closed"
          /\ Channel[q].reason = "Expired"
          /\ Channel[q].id = Channel[p].n.id
          => p < q

\* The timer has fired before the Notify event of its call was applied: both
\* events are on their way.
C34_Witness ==
    \E p, q \in 1..Len(Channel) :
        /\ Channel[p].type = "Notify"
        /\ Channel[q].type = "Closed"
        /\ Channel[q].reason = "Expired"
        /\ Channel[q].id = Channel[p].n.id
        /\ TimerOf(Channel[p].n)

\* C35: the counter is never 0; a Notify call with replaces_id = 0 is given
\* the counter's value, and when that value is the largest one (IdModulus - 1,
\* the model's 2^32 - 1) the counter goes to 1, so the next such call is
\* given 1.
C35_CounterWrapsToOne ==
    [][/\ next_id # 0
       /\ next_id' # 0
       /\ FreshCall
          => /\ FreshId = next_id
             /\ next_id = IdModulus - 1 => next_id' = 1
             /\ next_id < IdModulus - 1 => next_id' = next_id + 1
       /\ ~FreshCall => next_id' = next_id
      ]_vars

\* The counter has handed out its largest value and then 1.
C35_Witness ==
    /\ Len(issued) >= 2
    /\ issued[Len(issued) - 1].id = IdModulus - 1
    /\ issued[Len(issued)].id = 1
    /\ next_id = 2

\* The number of steps along SlideIn -> Display -> SlideOut -> removed that
\* lie between e and what the list es holds for its notification.
PhaseSteps(es, e) ==
    IF Holds(es, e.notification)
    THEN Rank(EntryOf(es, e.notification).phase) - Rank(e.phase)
    ELSE 3 - Rank(e.phase)

C37_HeightNeverRises ==
    [][TickStep \/ ClockStep \/ Dismissing
       => TargetSurfaceHeightAt(entries', now', animation_duration)
          <= TargetSurfaceHeightAt(entries, now, animation_duration)]_vars

\* C38: max_visible stays as configured in PopupSpec; in every state that
\* enqueue, tick, dismiss and the clock reach, at most max_visible entries are
\* not in SlideOut, so with max_visible = 0 every entry, the one just
\* enqueued included, is in SlideOut.
C38_VisibleWithinCap ==
    /\ Visible(entries) <= max_visible
    /\ max_visible = 0 => \A i \in 1..Len(entries) : entries[i].phase = "SlideOut"

\* With max_visible = 0 an entry has been enqueued at the current time.
C38_Witness ==
    /\ max_visible = 0
    /\ \E i \in 1..Len(entries) :
          /\ entries[i].phase = "SlideOut"
          /\ entries[i].phase_started = now
          /\ entries[i].notification.timestamp = calls

\* The retained list has an entry with the id of the Notify event at the head
\* of output.
ReplacesRetained ==
    \E i \in 1..Len(notifications) : notifications[i].id = Head(output).event.n.id

\* C39: applying a Notify event adds exactly 1 to unread_count when no
\* retained entry has its id and leaves it unchanged when it replaces one;
\* applying a Closed event, Dismiss and InvokeAction leave it unchanged;
\* MenuOpened and ClearAll set it to 0.
C39_UnreadCount ==
    [][/\ ApplyingNotify
          => unread_count' = IF ReplacesRetained THEN unread_count ELSE unread_count + 1
       /\ ApplyingClosed => unread_count' = unread_count
       /\ (\E id \in Ids : Dismiss(id) \/ \E key \in ActionKeys : InvokeAction(id, key))
          => unread_count' = unread_count
       /\ MenuOpened \/ ClearAll => unread_count' = 0
      ]_vars

\* A notification has been counted and a Notify event that replaces a retained
\* entry is about to be applied.
C39_Witness ==
    /\ unread_count >= 1
    /\ service
    /\ output # <<>>
    /\ Head(output).kind = "Update"
    /\ Head(output).event.type = "Notify"
    /\ ReplacesRetained

\* C40: the PopupTick message can arrive exactly in the states whose popup
\* entry list is not empty: it cannot before the first enqueue, it can from
\* the enqueue that makes the list non-empty on, and it cannot any more once
\* tick has removed the last entry.
C40_TickWhileActive ==
    (ENABLED Tick) <=> entries # <<>>

\* Time has passed since a notification was handed to the popup engine, and
\* the list is empty again: the subscription is gone.
C40_Witness ==
    /\ service
    /\ calls >= 1
    /\ now >= 1
    /\ output = <<>>
    /\ entries = <<>>
    /\ ~ENABLED Tick

====
